---- MODULE Spec2Model ----
(***************************************************************************)
(* Model of scripts/check-workflow-secrets.py: main, get_workflow_files,   *)
(* check_file and is_multiline_secret.                                     *)
(*                                                                         *)
(* Text is modelled at character level: a string is a sequence of          *)
(* one-character strings, a file is the sequence of its lines (the result  *)
(* of content.splitlines()), a path is the sequence of its characters.     *)
(* Indices i, run_start_idx and match offsets are 0-based as in the code;  *)
(* TLA+ sequences are 1-based, so lines[i] of the code is lines[i + 1].    *)
(***************************************************************************)
EXTENDS Integers, Sequences, FiniteSets, TLC

VARIABLES argv, fs, dirExists, pc, files, fidx, file_path, lines, i,
          run_start_idx, indicator, indent, body_lines, errors, all_errors,
          stdout, stderr, rc,
          reads, visited, consumed, blocks, per_file

vars == <<argv, fs, dirExists, pc, files, fidx, file_path, lines, i,
          run_start_idx, indicator, indent, body_lines, errors, all_errors,
          stdout, stderr, rc,
          reads, visited, consumed, blocks, per_file>>

(***************************************************************************)
(* Characters and string primitives.                                       *)
(***************************************************************************)
TAB == "\t"
NL == "\n"

\* str.isspace() / regex \s on the characters that occur in the model.
IsSpace(c) == c \in {" ", TAB, NL}

\* The regex class [A-Za-z0-9_].
NameChars ==
  {"A", "B", "C", "D", "E", "F", "G", "H", "I", "J", "K", "L", "M", "N", "O",
   "P", "Q", "R", "S", "T", "U", "V", "W", "X", "Y", "Z", "a", "b", "c", "d",
   "e", "f", "g", "h", "i", "j", "k", "l", "m", "n", "o", "p", "q", "r", "s",
   "t", "u", "v", "w", "x", "y", "z", "0", "1", "2", "3", "4", "5", "6", "7",
   "8", "9", "_"}

\* s[p : p + len(t)] == t, with p a 1-based position.
HasAt(s, p, t) ==
  /\ p >= 1
  /\ p + Len(t) - 1 <= Len(s)
  /\ \A k \in 1..Len(t) : s[p + k - 1] = t[k]

\* s.startswith(t)
StartsWith(s, t) == HasAt(s, 1, t)

\* s.endswith(t)
EndsWith(s, t) == HasAt(s, Len(s) - Len(t) + 1, t)

\* t in s
Contains(s, t) == \E p \in 1..(Len(s) + 1) : HasAt(s, p, t)

\* " " * n
Spaces(n) == [k \in 1..n |-> " "]

\* len(line) - len(line.lstrip())
LeadingSpace(line) ==
  IF \A k \in 1..Len(line) : IsSpace(line[k]) THEN Len(line)
  ELSE (CHOOSE k \in 1..Len(line) :
          /\ ~IsSpace(line[k])
          /\ \A j \in 1..(k - 1) : IsSpace(line[j])) - 1

\* not line.strip()
IsBlank(line) == \A k \in 1..Len(line) : IsSpace(line[k])

\* First position >= p of s that holds no whitespace (regex \s*, greedy).
RECURSIVE SkipSpace(_, _)
SkipSpace(s, p) ==
  IF p <= Len(s) /\ IsSpace(s[p]) THEN SkipSpace(s, p + 1) ELSE p

\* First position >= p of s that holds no name character ([A-Za-z0-9_]*).
RECURSIVE SkipName(_, _)
SkipName(s, p) ==
  IF p <= Len(s) /\ s[p] \in NameChars THEN SkipName(s, p + 1) ELSE p

\* "\n".join(ls)
RECURSIVE Join(_)
Join(ls) ==
  IF Len(ls) = 0 THEN <<>>
  ELSE IF Len(ls) = 1 THEN ls[1]
  ELSE ls[1] \o <<NL>> \o Join(Tail(ls))

\* s.count("\n")
CountNL(s) == Cardinality({k \in 1..Len(s) : s[k] = NL})

RUN == <<"r", "u", "n", ":">>
OPEN == <<"$", "{", "{">>
CLOSE == <<"}", "}">>
SECRETS == <<"s", "e", "c", "r", "e", "t", "s", ".">>
_CREDENTIALS == <<"_", "C", "R", "E", "D", "E", "N", "T", "I", "A", "L", "S">>
_KEY == <<"_", "K", "E", "Y">>
FIREBASE_CREDENTIALS_JSON ==
  <<"F", "I", "R", "E", "B", "A", "S", "E", "_", "C", "R", "E", "D", "E", "N",
    "T", "I", "A", "L", "S", "_", "J", "S", "O", "N">>
PI_SSH_KEY == <<"P", "I", "_", "S", "S", "H", "_", "K", "E", "Y">>
YML == <<".", "y", "m", "l">>
YAML == <<".", "y", "a", "m", "l">>
WORKFLOWS_DIR ==
  <<".", "g", "i", "t", "h", "u", "b", "/", "w", "o", "r", "k", "f", "l", "o",
    "w", "s">>

MULTILINE_SECRET_NAMES == {FIREBASE_CREDENTIALS_JSON, PI_SSH_KEY}


(***************************************************************************)
(* Pure functions of the script.                                           *)
(***************************************************************************)

\* Path(p).name: the final path component.
PathName(p) ==
  IF \E k \in 1..Len(p) : p[k] = "/"
    THEN LET k == CHOOSE k \in 1..Len(p) :
                    p[k] = "/" /\ \A j \in (k + 1)..Len(p) : p[j] # "/"
         IN SubSeq(p, k + 1, Len(p))
    ELSE p

\* Path(p).suffix: name[i:] for i = name.rfind("."), when 0 < i < len(name) - 1
\* (i 0-based), else the empty string.
Suffix(p) ==
  LET name == PathName(p)
      dots == {k \in 1..Len(name) : name[k] = "."}
  IN IF dots = {} THEN <<>>
     ELSE LET k == CHOOSE k \in dots : \A j \in dots : j <= k
          IN IF 1 < k /\ k < Len(name) THEN SubSeq(name, k, Len(name))
             ELSE <<>>

\* Path(p).suffix in (".yml", ".yaml")
IsYamlMutant(p) == Suffix(p) = YML
IsYaml(p) == Suffix(p) \in {YML, YAML}

\* [Path(p) for p in paths if Path(p).suffix in (".yml", ".yaml")]
RECURSIVE SelectYaml(_)
SelectYaml(paths) ==
  IF paths = <<>> THEN <<>>
  ELSE (IF IsYaml(Head(paths)) THEN <<Head(paths)>> ELSE <<>>)
         \o SelectYaml(Tail(paths))

\* Character order of the characters that occur in paths (ASCII order).
CharOrder ==
  <<".", "/", "a", "b", "c", "d", "e", "f", "g", "h", "i", "j", "k", "l", "m",
    "n", "o", "p", "q", "r", "s", "t", "u", "v", "w", "x", "y", "z">>
Ord(c) == CHOOSE k \in 1..Len(CharOrder) : CharOrder[k] = c

\* p < q for paths (lexicographic).
PathLess(p, q) ==
  \E k \in 1..(Len(q)) :
    /\ \A j \in 1..(k - 1) : j <= Len(p) /\ p[j] = q[j]
    /\ \/ k = Len(p) + 1
       \/ k <= Len(p) /\ Ord(p[k]) < Ord(q[k])

\* sorted(S) for a set of paths.
RECURSIVE Sorted(_)
Sorted(S) ==
  IF S = {} THEN <<>>
  ELSE LET m == CHOOSE m \in S : \A q \in S \ {m} : PathLess(m, q)
       IN <<m>> \o Sorted(S \ {m})

\* workflows_dir.glob("*" + ext): the entries of the default directory whose
\* name ends with ext.
Glob(fsys, ext) ==
  {p \in DOMAIN fsys :
     /\ StartsWith(p, WORKFLOWS_DIR \o <<"/">>)
     /\ PathName(p) = SubSeq(p, Len(WORKFLOWS_DIR) + 2, Len(p))
     /\ EndsWith(PathName(p), ext)}

\* get_workflow_files(paths); paths = <<>> stands for None (main passes
\* sys.argv[1:] or None, and the function tests "if paths").
get_workflow_files(paths, fsys, dirE) ==
  IF paths # <<>> THEN SelectYaml(paths)
  ELSE IF ~dirE THEN <<>>
  ELSE Sorted(Glob(fsys, YML)) \o Sorted(Glob(fsys, YAML))

\* is_multiline_secret(secret_name)
is_multiline_secret(secret_name) ==
  IF secret_name \in MULTILINE_SECRET_NAMES THEN TRUE
  ELSE IF Contains(secret_name, _CREDENTIALS) \/ EndsWith(secret_name, _KEY)
    THEN TRUE
  ELSE FALSE

\* re.search(r"^\s*run:\s*([|>]-?)?.*$", line) is not None.  The line holds no
\* newline, so ".*$" always matches and the greedy choices stand.
run_match(line) == HasAt(line, SkipSpace(line, 1), RUN)

\* run_match.group(1): the block indicator, <<>> for None (only its truth
\* value is used).
run_indicator(line) ==
  LET q == SkipSpace(line, SkipSpace(line, 1) + Len(RUN))
  IN IF q <= Len(line) /\ line[q] \in {"|", ">"}
       THEN IF q + 1 <= Len(line) /\ line[q + 1] = "-"
              THEN <<line[q], "-">> ELSE <<line[q]>>
       ELSE <<>>

\* line.split("run:", 1)[1]
AfterRunMutant(line) ==
  LET p == CHOOSE p \in 1..Len(line) :
              HasAt(line, p, RUN) /\ \A j \in 1..(p - 1) : ~HasAt(line, j, RUN)
  IN SubSeq(line, 1, p - 1)
AfterRun(line) ==
  LET p == CHOOSE p \in 1..Len(line) :
              HasAt(line, p, RUN) /\ \A j \in 1..(p - 1) : ~HasAt(line, j, RUN)
  IN SubSeq(line, p + Len(RUN), Len(line))

\* The inner loop's break test:
\* lines[i].strip() and not lines[i].startswith(" " * (indent + 1))
InnerStopMutant(line, ind) == ~IsBlank(line) /\ ~StartsWith(line, Spaces(ind))
InnerStopNever(line, ind) == FALSE
InnerStop(line, ind) == ~IsBlank(line) /\ ~StartsWith(line, Spaces(ind + 1))

\* "i -= 1  # Step back so the outer loop doesn't skip the next line"
StepBackMutant(k) == k
StepBack(k) == k - 1

\* SECRET_INLINE_PATTERN.match(s, p - 1): \$\{\{\s*secrets\.([A-Za-z0-9_]+)\s*\}\}
\* tried at the 1-based position p.  end is the position after the match.
SECRET_INLINE_PATTERN(s, p) ==
  LET b == SkipSpace(s, p + Len(OPEN))
      c == b + Len(SECRETS)
      d == SkipName(s, c)
      e == SkipSpace(s, d)
  IN IF /\ HasAt(s, p, OPEN)
        /\ HasAt(s, b, SECRETS)
        /\ d > c
        /\ HasAt(s, e, CLOSE)
       THEN [ok |-> TRUE, name |-> SubSeq(s, c, d - 1), end |-> e + Len(CLOSE)]
       ELSE [ok |-> FALSE, name |-> <<>>, end |-> p]

\* SECRET_INLINE_PATTERN.finditer(body) from position p on: the matches in
\* order, each with m.start() (0-based) and m.group(1).
RECURSIVE FindIter(_, _)
FindIter(s, p) ==
  IF p > Len(s) THEN <<>>
  ELSE LET m == SECRET_INLINE_PATTERN(s, p)
       IN IF m.ok
            THEN <<[start |-> p - 1, name |-> m.name]>> \o FindIter(s, m.end)
            ELSE FindIter(s, p + 1)

\* file_line = run_start_idx + line_offset + 1
FileLine(start, line_offset) == start + line_offset + 1

\* The errors check_file appends for one run block.  A diagnostic is the
\* message's three fields (path, line, name); blk and off record
\* run_start_idx and m.start() at the time of the append.
RECURSIVE BlockErrors(_, _, _, _)
BlockErrors(path, start, body, ms) ==
  IF ms = <<>> THEN <<>>
  ELSE LET m == Head(ms)
           line_offset == CountNL(SubSeq(body, 1, m.start))
       IN (IF is_multiline_secret(m.name)
             THEN <<[path |-> path, line |-> FileLine(start, line_offset),
                     name |-> m.name, blk |-> start, off |-> m.start]>>
             ELSE <<>>)
          \o BlockErrors(path, start, body, Tail(ms))

\* all_errors.extend(check_file(f))
ExtendMutant(a, b) == b \o a
Extend(a, b) == a \o b

\* main's return value once the loop is over: 1 if all_errors else 0.
ExitStatusMutant(errs) == 0
ExitStatus(errs) == IF errs # <<>> THEN 1 ELSE 0


(***************************************************************************)
(* Inputs: argument lists and file systems the script is run on.           *)
(***************************************************************************)

\* Bounds of the enumerated inputs.
MaxLines == 3
MaxArgs == 2
MaxFrags == 2

A_KEY == <<"A", "_", "K", "E", "Y">>
API_TOKEN == <<"A", "P", "I", "_", "T", "O", "K", "E", "N">>

\* The text ${{ secrets.NAME }}.
Ref(name) == OPEN \o <<" ">> \o SECRETS \o name \o <<" ">> \o CLOSE

DeclBlock == RUN \o <<" ", "|">>
DeclInline(name) == RUN \o <<" ">> \o Ref(name)
EnvEntry(name) == <<"v", ":", " ">> \o Ref(name)

Indents == {<<>>, <<" ">>, <<" ", " ">>, <<TAB>>}

\* Lines of the scanned files: declarations and token-bearing lines at
\* several indentations (spaces and tabs), and blank lines.
ScanLines ==
  {ind \o c : ind \in Indents,
              c \in {DeclBlock, DeclInline(A_KEY), EnvEntry(A_KEY)}}
    \cup {<<>>, <<" ", " ">>}

ScanFiles == UNION {[1..n -> ScanLines] : n \in 0..MaxLines}

\* Secret names: the two canonical names, API_TOKEN, and the concatenations
\* of at most MaxFrags fragments.
NameFrags ==
  {_KEY, _CREDENTIALS, <<"K", "E", "Y">>, <<"_", "k", "e", "y">>,
   <<"C", "R", "E", "D", "E", "N", "T", "I", "A", "L", "S">>, <<"S">>,
   <<"A", "9">>}

RECURSIVE FragNames(_)
FragNames(n) ==
  IF n = 0 THEN {<<>>}
  ELSE {a \o f : a \in FragNames(n - 1), f \in NameFrags} \cup FragNames(n - 1)

Names ==
  (FragNames(MaxFrags) \ {<<>>})
    \cup {FIREBASE_CREDENTIALS_JSON, PI_SSH_KEY, API_TOKEN}

\* "run: |" followed by one deeper-indented line referencing the secret.
BlockFile(ind, deeper, name) ==
  <<ind \o DeclBlock, ind \o deeper \o <<"e", "c", "h", "o", " ">> \o Ref(name)>>

NameFiles ==
  {BlockFile(ind, deeper, name) :
     ind \in {<<>>, <<" ">>}, deeper \in {<<" ">>, <<" ", " ">>, <<TAB>>},
     name \in Names}
    \cup {<<DeclInline(name)>> : name \in Names}

\* Other forms of declaration and of token.
FormFiles ==
  {<<RUN \o <<" ", "|", "-">>, <<" ">> \o Ref(A_KEY)>>,
   <<RUN \o <<">">>, <<" ">> \o Ref(A_KEY)>>,
   <<RUN \o <<" ", ">", "-", " ", "#">>, <<" ">> \o Ref(A_KEY)>>,
   <<RUN \o <<" ", "|", " ">> \o Ref(A_KEY), <<" ", "x">>>>,
   <<<<"-", " ">> \o DeclBlock, <<" ", " ", " ">> \o Ref(A_KEY)>>,
   <<<<"-", " ">> \o DeclInline(A_KEY)>>,
   <<DeclBlock, <<" ">> \o OPEN, <<" ">> \o SECRETS \o A_KEY, <<" ">> \o CLOSE>>,
   <<DeclBlock, <<" ">> \o OPEN \o SECRETS \o A_KEY \o CLOSE>>,
   <<DeclBlock, <<" ">> \o OPEN \o <<" ">> \o SECRETS \o <<" ">> \o CLOSE>>,
   <<DeclBlock, <<" ">> \o OPEN \o <<" ">> \o SECRETS \o A_KEY \o <<"-">> \o CLOSE>>,
   <<RUN \o <<" ">> \o Ref(A_KEY) \o <<" ">> \o Ref(API_TOKEN) \o Ref(PI_SSH_KEY)>>}

A_YML == <<"a", ".", "y", "m", "l">>
B_YAML == <<"b", ".", "y", "a", "m", "l">>
NOTES_TXT == <<"n", "o", "t", "e", "s", ".", "t", "x", "t">>
DOT_YML == <<".", "y", "m", "l">>
InDir(name) == WORKFLOWS_DIR \o <<"/">> \o name

ArgPaths == {A_YML, B_YAML, NOTES_TXT, DOT_YML}
ArgLists == UNION {[1..n -> ArgPaths] : n \in 0..MaxArgs}

\* Contents with two, one and no violation.
TwoViolations ==
  <<DeclBlock, <<" ">> \o Ref(A_KEY) \o <<" ">> \o Ref(PI_SSH_KEY)>>
OneViolation == <<DeclInline(A_KEY), EnvEntry(A_KEY)>>
NoViolation == <<DeclInline(API_TOKEN)>>

\* The files of the default directory, when it has any.
DirFiles ==
  [p \in {InDir(<<"b", ".", "y", "m", "l">>), InDir(A_YML), InDir(B_YAML),
          InDir(NOTES_TXT)} |->
     IF p = InDir(A_YML) THEN TwoViolations
     ELSE IF p = InDir(NOTES_TXT) THEN TwoViolations
     ELSE IF p = InDir(B_YAML) THEN OneViolation
     ELSE NoViolation]

Empty == [p \in {} |-> <<>>]

\* Files named by arguments: a.yml may be missing, b.yaml may be clean,
\* notes.txt holds violations and .yml does not exist.
ArgFileSystems ==
  {f @@ g @@ [p \in {NOTES_TXT} |-> TwoViolations] :
     f \in {Empty, [p \in {A_YML} |-> TwoViolations]},
     g \in {[p \in {B_YAML} |-> OneViolation], [p \in {B_YAML} |-> NoViolation]}}

Scenarios ==
  \* one file given by name, over all contents
  {[argv |-> <<A_YML>>, fs |-> [p \in {A_YML} |-> c], dir |-> FALSE] :
     c \in ScanFiles \cup NameFiles \cup FormFiles}
  \* argument lists, with a populated default directory beside them
  \cup {[argv |-> a, fs |-> f @@ DirFiles, dir |-> TRUE] :
          a \in ArgLists \ {<<>>}, f \in ArgFileSystems}
  \* no argument: the default directory absent, empty or populated
  \cup {[argv |-> <<>>, fs |-> f, dir |-> FALSE] : f \in ArgFileSystems}
  \cup {[argv |-> <<>>, fs |-> f, dir |-> TRUE] : f \in ArgFileSystems}
  \cup {[argv |-> <<>>, fs |-> f @@ DirFiles, dir |-> TRUE] :
          f \in ArgFileSystems}

(***************************************************************************)
(* The program.  pc is the position in main / check_file:                  *)
(*   "main"     before get_workflow_files                                  *)
(*   "resolved" files computed, before "if not files"                      *)
(*   "loop"     at the head of "for f in files"                            *)
(*   "outer"    at the head of check_file's "while i < len(lines)"         *)
(*   "inner"    at the head of the inner while of a multi-line block       *)
(*   "body"     at "body = ..." with body_lines complete                   *)
(*   "done"     main has returned rc;  "crashed": an exception propagated  *)
(* rc is -1 until main returns.                                            *)
(* reads, visited, consumed, blocks and per_file are history variables:    *)
(* the paths read, the line indices examined by the outer loop, those      *)
(* appended by the inner loop, the blocks scanned in the current file, and *)
(* the list returned by each check_file call.                              *)
(***************************************************************************)
Init ==
  \E sc \in Scenarios :
    /\ argv = sc.argv
    /\ fs = sc.fs
    /\ dirExists = sc.dir
    /\ pc = "main"
    /\ files = <<>>
    /\ fidx = 1
    /\ file_path = <<>>
    /\ lines = <<>>
    /\ i = 0
    /\ run_start_idx = 0
    /\ indicator = <<>>
    /\ indent = 0
    /\ body_lines = <<>>
    /\ errors = <<>>
    /\ all_errors = <<>>
    /\ stdout = <<>>
    /\ stderr = <<>>
    /\ rc = -1
    /\ reads = <<>>
    /\ visited = {}
    /\ consumed = {}
    /\ blocks = <<>>
    /\ per_file = <<>>

scan_vars == <<lines, i, run_start_idx, indicator, indent, body_lines, errors,
               visited, consumed, blocks>>
io_vars == <<argv, fs, dirExists>>
out_vars == <<stdout, stderr, rc>>

\* main: paths = sys.argv[1:] or None; files = get_workflow_files(paths)
ResolveFiles ==
  /\ pc = "main"
  /\ files' = get_workflow_files(argv, fs, dirExists)
  /\ pc' = "resolved"
  /\ UNCHANGED <<io_vars, scan_vars, out_vars, fidx, file_path, all_errors,
                 reads, per_file>>

\* main: if not files: print(..., file=sys.stderr); return 0
NoFiles ==
  /\ pc = "resolved"
  /\ files = <<>>
  /\ stderr' = Append(stderr, "No workflow files to check.")
  /\ rc' = 0
  /\ pc' = "done"
  /\ UNCHANGED <<io_vars, scan_vars, files, fidx, file_path, all_errors,
                 stdout, reads, per_file>>

\* main: all_errors = []; enter the for loop
BeginLoop ==
  /\ pc = "resolved"
  /\ files # <<>>
  /\ all_errors' = <<>>
  /\ fidx' = 1
  /\ pc' = "loop"
  /\ UNCHANGED <<io_vars, scan_vars, out_vars, files, file_path, reads,
                 per_file>>

\* check_file: errors = []; content = file_path.read_text();
\* lines = content.splitlines(); i = 0
ReadFile ==
  /\ pc = "loop"
  /\ fidx <= Len(files)
  /\ files[fidx] \in DOMAIN fs
  /\ file_path' = files[fidx]
  /\ lines' = fs[files[fidx]]
  /\ reads' = Append(reads, files[fidx])
  /\ errors' = <<>>
  /\ i' = 0
  /\ visited' = {}
  /\ consumed' = {}
  /\ blocks' = <<>>
  /\ pc' = "outer"
  /\ UNCHANGED <<io_vars, out_vars, files, fidx, run_start_idx, indicator,
                 indent, body_lines, all_errors, per_file>>

\* check_file: read_text() raises for a path that does not exist; nothing
\* catches it.
ReadFail ==
  /\ pc = "loop"
  /\ fidx <= Len(files)
  /\ files[fidx] \notin DOMAIN fs
  /\ file_path' = files[fidx]
  /\ pc' = "crashed"
  /\ UNCHANGED <<io_vars, scan_vars, out_vars, files, fidx, all_errors, reads,
                 per_file>>

\* Outer loop, a line that is no run declaration: i += 1
OuterNoMatch ==
  /\ pc = "outer"
  /\ i < Len(lines)
  /\ ~run_match(lines[i + 1])
  /\ visited' = visited \cup {i}
  /\ i' = i + 1
  /\ UNCHANGED <<io_vars, out_vars, pc, files, fidx, file_path, lines,
                 run_start_idx, indicator, indent, body_lines, errors,
                 consumed, blocks, all_errors, reads, per_file>>

\* Outer loop, a run declaration with no indicator:
\* body_lines = [line.split("run:", 1)[1]]
RunSingleLine ==
  /\ pc = "outer"
  /\ i < Len(lines)
  /\ run_match(lines[i + 1])
  /\ run_indicator(lines[i + 1]) = <<>>
  /\ visited' = visited \cup {i}
  /\ run_start_idx' = i
  /\ indicator' = <<>>
  /\ body_lines' = <<AfterRun(lines[i + 1])>>
  /\ pc' = "body"
  /\ UNCHANGED <<io_vars, out_vars, files, fidx, file_path, lines, i, indent,
                 errors, consumed, blocks, all_errors, reads, per_file>>

\* Outer loop, a run declaration with an indicator:
\* indent = len(line) - len(line.lstrip()); i += 1
RunMultiLine ==
  /\ pc = "outer"
  /\ i < Len(lines)
  /\ run_match(lines[i + 1])
  /\ run_indicator(lines[i + 1]) # <<>>
  /\ visited' = visited \cup {i}
  /\ run_start_idx' = i
  /\ indicator' = run_indicator(lines[i + 1])
  /\ body_lines' = <<>>
  /\ indent' = LeadingSpace(lines[i + 1])
  /\ i' = i + 1
  /\ pc' = "inner"
  /\ UNCHANGED <<io_vars, out_vars, files, fidx, file_path, lines, errors,
                 consumed, blocks, all_errors, reads, per_file>>

\* Inner loop, no break: body_lines.append(lines[i]); i += 1
InnerAppend ==
  /\ pc = "inner"
  /\ i < Len(lines)
  /\ ~InnerStop(lines[i + 1], indent)
  /\ body_lines' = Append(body_lines, lines[i + 1])
  /\ consumed' = consumed \cup {i}
  /\ i' = i + 1
  /\ UNCHANGED <<io_vars, out_vars, pc, files, fidx, file_path, lines,
                 run_start_idx, indicator, indent, errors, visited, blocks,
                 all_errors, reads, per_file>>

\* Inner loop ends (break, or i == len(lines)): i -= 1
InnerExit ==
  /\ pc = "inner"
  /\ IF i < Len(lines) THEN InnerStop(lines[i + 1], indent) ELSE TRUE
  /\ i' = StepBack(i)
  /\ pc' = "body"
  /\ UNCHANGED <<io_vars, out_vars, files, fidx, file_path, lines,
                 run_start_idx, indicator, indent, body_lines, errors, visited,
                 consumed, blocks, all_errors, reads, per_file>>

\* body = "\n".join(body_lines); the finditer loop; i += 1
ScanBody ==
  /\ pc = "body"
  /\ LET body == Join(body_lines)
     IN errors' = errors \o BlockErrors(file_path, run_start_idx, body,
                                        FindIter(body, 1))
  /\ i' = i + 1
  /\ blocks' = Append(blocks, [start |-> run_start_idx,
                               multi |-> indicator # <<>>,
                               body |-> body_lines,
                               next |-> i + 1])
  /\ pc' = "outer"
  /\ UNCHANGED <<io_vars, out_vars, files, fidx, file_path, lines,
                 run_start_idx, indicator, indent, body_lines, visited,
                 consumed, all_errors, reads, per_file>>

\* check_file returns errors; main: all_errors.extend(...); next file
CheckFileReturn ==
  /\ pc = "outer"
  /\ i >= Len(lines)
  /\ all_errors' = Extend(all_errors, errors)
  /\ per_file' = Append(per_file, errors)
  /\ fidx' = fidx + 1
  /\ pc' = "loop"
  /\ UNCHANGED <<io_vars, out_vars, scan_vars, files, file_path, reads>>

\* main: if all_errors: print each; return 1
ReportErrors ==
  /\ pc = "loop"
  /\ fidx > Len(files)
  /\ all_errors # <<>>
  /\ stdout' = stdout \o all_errors
  /\ rc' = ExitStatus(all_errors)
  /\ pc' = "done"
  /\ UNCHANGED <<io_vars, scan_vars, files, fidx, file_path, all_errors,
                 stderr, reads, per_file>>

\* main: return 0
ReturnClean ==
  /\ pc = "loop"
  /\ fidx > Len(files)
  /\ all_errors = <<>>
  /\ rc' = ExitStatus(all_errors)
  /\ pc' = "done"
  /\ UNCHANGED <<io_vars, scan_vars, files, fidx, file_path, all_errors,
                 stdout, stderr, reads, per_file>>

Next ==
  \/ ResolveFiles
  \/ NoFiles
  \/ BeginLoop
  \/ ReadFile
  \/ ReadFail
  \/ OuterNoMatch
  \/ RunSingleLine
  \/ RunMultiLine
  \/ InnerAppend
  \/ InnerExit
  \/ ScanBody
  \/ CheckFileReturn
  \/ ReportErrors
  \/ ReturnClean

Spec == Init /\ [][Next]_vars


(***************************************************************************)
(* Properties.                                                             *)
(***************************************************************************)

\* check_file is about to return errors for the current file.
FileDone == pc = "outer" /\ i >= Len(lines)

\* The concatenation of a sequence of sequences.
RECURSIVE Flatten(_)
Flatten(ss) == IF ss = <<>> THEN <<>> ELSE Head(ss) \o Flatten(Tail(ss))

\* Indentation width of a line: the number of leading whitespace characters.
Width(line) == LeadingSpace(line)

\* The text of a declaration line after its leading whitespace and "run:".
Remainder(line) == SubSeq(line, Width(line) + Len(RUN) + 1, Len(line))

\* A name the classification rule recognises as multi-line.
Recognized(name) ==
  \/ name = FIREBASE_CREDENTIALS_JSON
  \/ name = PI_SSH_KEY
  \/ Contains(name, _CREDENTIALS)
  \/ EndsWith(name, _KEY)

\* The names of the secret-reference tokens that start on line n (1-based)
\* of ls, as a sequence of names in order of position.
RECURSIVE TokensFrom(_, _, _)
TokensFrom(text, len, p) ==
  IF p > len THEN <<>>
  ELSE LET m == SECRET_INLINE_PATTERN(text, p)
       IN IF m.ok THEN <<m.name>> \o TokensFrom(text, len, p + 1)
          ELSE TokensFrom(text, len, p + 1)
TokensOn(ls, n) == TokensFrom(Join(SubSeq(ls, n, Len(ls))), Len(ls[n]), 1)

\* Number of tokens with a recognised name that start on line n of ls.
ViolationsOn(ls, n) ==
  LET ts == TokensOn(ls, n)
  IN Cardinality({k \in 1..Len(ts) : Recognized(ts[k])})

\* Index (0-based) of the first line after line d that is non-blank and not
\* indented strictly deeper than width w; Len(ls) when there is none.
Terminator(ls, d, w) ==
  LET T == {k \in (d + 1)..(Len(ls) - 1) :
              ~IsBlank(ls[k + 1]) /\ Width(ls[k + 1]) <= w}
  IN IF T = {} THEN Len(ls) ELSE CHOOSE k \in T : \A j \in T : k <= j

\* C1: when main returns, the status is 0 or 1, it is 1 exactly when some
\* check_file call returned a diagnostic, and with zero resolved files
\* nothing is written to standard output.
C1_ExitStatus ==
  pc = "done" =>
    /\ rc \in {0, 1}
    /\ rc = 1 <=> \E k \in 1..Len(per_file) : per_file[k] # <<>>
    /\ files = <<>> => (stdout = <<>> /\ rc = 0)

C1_Witness ==
  /\ pc = "done"
  /\ rc = 1
  /\ Len(files) = 2
  /\ per_file[1] = <<>>
  /\ per_file[2] # <<>>

\* C2: for a file made of "run: |" and one deeper-indented line referencing
\* ${{ secrets.NAME }}, check_file returns exactly one diagnostic, naming
\* NAME, when NAME is recognised, and none otherwise.
C2_NameClassification ==
  \A ind \in Indents, deeper \in Indents \ {<<>>}, name \in Names :
    (FileDone /\ lines = BlockFile(ind, deeper, name)) =>
      IF Recognized(name)
        THEN Len(errors) = 1 /\ errors[1].name = name
        ELSE errors = <<>>

\* C3: a declaration without indicator is a single-line block: its body is
\* the text after "run:" on that line, a recognised secret referenced there
\* is reported, and the scan resumes at the very next line, none consumed.
C3_SingleLine ==
  /\ (pc = "body" /\ indicator = <<>>) =>
       /\ body_lines = <<Remainder(lines[run_start_idx + 1])>>
       /\ i = run_start_idx
       /\ \A k \in consumed : k < run_start_idx
  /\ \A n \in 1..Len(blocks) :
       ~blocks[n].multi =>
         /\ blocks[n].body = <<Remainder(lines[blocks[n].start + 1])>>
         /\ blocks[n].next = blocks[n].start + 1
         /\ blocks[n].start + 1 \notin consumed
         /\ LET ts == TokensOn(<<lines[blocks[n].start + 1]>>, 1)
            IN \A t \in 1..Len(ts) :
                 Recognized(ts[t]) =>
                   \E k \in 1..Len(errors) :
                     /\ errors[k].blk = blocks[n].start
                     /\ errors[k].name = ts[t]

C3_Witness ==
  /\ FileDone
  /\ Len(lines) = 2
  /\ Len(blocks) = 1
  /\ ~blocks[1].multi
  /\ blocks[1].start = 0
  /\ ~IsBlank(lines[2])
  /\ Len(errors) = 1

\* C4: the body of a multi-line block whose declaration has indentation
\* width w ends exactly at the first later line that is non-blank and not
\* indented strictly deeper than w; that line is outside the body and is the
\* next line the outer scan examines, as a declaration of its own if it is one.
C4_BlockEnd ==
  /\ (pc = "body" /\ indicator # <<>>) =>
       LET d == run_start_idx
           t == Terminator(lines, d, Width(lines[d + 1]))
       IN /\ body_lines = SubSeq(lines, d + 2, t)
          /\ i + 1 = t
  /\ \A n \in 1..Len(blocks) :
       blocks[n].multi =>
         LET d == blocks[n].start
             t == Terminator(lines, d, Width(lines[d + 1]))
         IN /\ blocks[n].next = t
            /\ (FileDone /\ t < Len(lines)) =>
                 /\ t \in visited
                 /\ run_match(lines[t + 1]) =>
                      \E m \in 1..Len(blocks) : blocks[m].start = t

\* C5: main prints the concatenation, in resolved-file order, of what each
\* check_file call returned, and each file's diagnostics are in scan order:
\* by block, then by match position.
C5_Order ==
  /\ \A a, b \in 1..Len(errors) :
       a < b => \/ errors[a].blk < errors[b].blk
                \/ errors[a].blk = errors[b].blk /\ errors[a].off < errors[b].off
  /\ (pc = "done" /\ files # <<>>) =>
       /\ Len(per_file) = Len(files)
       /\ \A k \in 1..Len(files) :
            \A n \in 1..Len(per_file[k]) : per_file[k][n].path = files[k]
       /\ stdout = Flatten(per_file)
       /\ rc = 1 <=> stdout # <<>>

C5_Witness ==
  /\ pc = "done"
  /\ rc = 1
  /\ Len(per_file) = 2
  /\ Len(per_file[1]) = 2
  /\ Len(per_file[2]) = 1
  /\ Len(stdout) = 3

\* C6: with arguments, the resolved files are exactly the arguments whose
\* suffix is .yml or .yaml, in the given order; no other path is ever read or
\* reported, a dropped argument causes no failure, and the default directory
\* is not used.
C6_ArgFilter ==
  (argv # <<>> /\ pc # "main") =>
    /\ files = SelectSeq(argv, LAMBDA p : Suffix(p) = YML \/ Suffix(p) = YAML)
    /\ \A k \in 1..Len(reads) :
         \E n \in 1..Len(argv) :
           argv[n] = reads[k] /\ Suffix(reads[k]) \in {YML, YAML}
    /\ \A k \in 1..Len(stdout) :
         \E n \in 1..Len(argv) :
           argv[n] = stdout[k].path /\ Suffix(stdout[k].path) \in {YML, YAML}
    /\ pc = "crashed" => Suffix(file_path) \in {YML, YAML}

C6_Witness ==
  /\ pc = "done"
  /\ argv = <<NOTES_TXT, B_YAML>>
  /\ files = <<B_YAML>>
  /\ reads = <<B_YAML>>
  /\ InDir(A_YML) \in DOMAIN fs

\* C7: the line number of every diagnostic is the 1-based number of the file
\* line on which a token naming the reported secret starts.
C7_LineNumber ==
  \A k \in 1..Len(errors) :
    /\ errors[k].line \in 1..Len(lines)
    /\ \E n \in 1..Len(TokensOn(lines, errors[k].line)) :
         TokensOn(lines, errors[k].line)[n] = errors[k].name

\* A measure of the work check_file has left: it weighs the lines at or after
\* the cursor and the position within the current iteration.
ScanMeasure ==
  3 * (Len(lines) - i)
    + (IF pc = "inner" THEN 5 ELSE IF pc = "outer" THEN 3 ELSE 1)

\* C8 (state part): at the head of each outer iteration the cursor is beyond
\* every earlier one, every line below it was examined by the outer loop or
\* consumed by a block body, never both, and the cursor never passes
\* len(lines); the step-back leaves the cursor at or after the declaration.
C8_ScanSafety ==
  /\ i <= Len(lines)
  /\ ScanMeasure >= 0
  /\ pc = "body" => (i < Len(lines) /\ i >= run_start_idx)
  /\ pc = "outer" =>
       /\ \A k \in visited : k < i
       /\ visited \cup consumed = 0..(i - 1)
       /\ visited \cap consumed = {}

\* C8 (amended): C8_ScanSafety holds throughout, and every step of the scan
\* of a file strictly decreases ScanMeasure, a natural number: the scan of
\* every finite sequence of lines terminates.
C8_ScanTerminates ==
  /\ []C8_ScanSafety
  /\ [][(pc \in {"outer", "inner", "body"}
           /\ pc' \in {"outer", "inner", "body"})
          => ScanMeasure' < ScanMeasure]_vars

C8_Witness ==
  /\ FileDone
  /\ Len(blocks) = 2
  /\ blocks[1].multi /\ blocks[1].body = <<>>
  /\ blocks[2].multi /\ blocks[2].body # <<>>
  /\ blocks[2].next = Len(lines)

\* C8 as stated: as above, and the step-back after a multi-line block never
\* moves the cursor to or before the declaration line.
C8_AsStated ==
  /\ C8_ScanSafety
  /\ (pc = "body" /\ indicator # <<>>) => i > run_start_idx

\* C9: the body captured for a multi-line block holds only lines after the
\* declaration that are blank or indented strictly deeper than it; the body
\* of a single-line block is only the remainder of the declaration line.
C9_BodyLines ==
  /\ (pc \in {"inner", "body"} /\ indicator # <<>>) =>
       \A j \in 1..Len(body_lines) :
         /\ body_lines[j] = lines[run_start_idx + 1 + j]
         /\ \/ IsBlank(body_lines[j])
            \/ Width(body_lines[j]) > Width(lines[run_start_idx + 1])
  /\ (pc = "body" /\ indicator = <<>>) =>
       body_lines = <<Remainder(lines[run_start_idx + 1])>>
  /\ \A n \in 1..Len(blocks) :
       IF blocks[n].multi
         THEN \A j \in 1..Len(blocks[n].body) :
                /\ blocks[n].body[j] = lines[blocks[n].start + 1 + j]
                /\ \/ IsBlank(blocks[n].body[j])
                   \/ Width(blocks[n].body[j]) > Width(lines[blocks[n].start + 1])
         ELSE blocks[n].body = <<Remainder(lines[blocks[n].start + 1])>>

C9_Witness ==
  /\ pc = "body"
  /\ indicator # <<>>
  /\ Len(body_lines) = 2
  /\ IsBlank(body_lines[1])
  /\ ~IsBlank(body_lines[2])

\* The lines (1-based) a block declared on line d (0-based) may draw
\* diagnostics from: the declaration line itself without indicator, else the
\* later lines up to the first non-blank one not indented strictly deeper.
Region(ls, d) ==
  IF run_indicator(ls[d + 1]) = <<>> THEN {d + 1}
  ELSE (d + 2)..Terminator(ls, d, Width(ls[d + 1]))

RECURSIVE SumViolations(_, _)
SumViolations(ls, S) ==
  IF S = {} THEN 0
  ELSE LET n == CHOOSE n \in S : TRUE
       IN ViolationsOn(ls, n) + SumViolations(ls, S \ {n})

\* C10: every diagnostic belongs to a run declaration, and a declaration
\* yields no more diagnostics than there are recognised tokens on its own
\* line (single-line form) or inside its body (multi-line form): a token on
\* any other line, such as an env: entry at the indentation of the preceding
\* run: line or less, produces none.
C10_OutsideTokens ==
  /\ \A k \in 1..Len(errors) : run_match(lines[errors[k].blk + 1])
  /\ FileDone =>
       \A d \in 0..(Len(lines) - 1) :
         Cardinality({k \in 1..Len(errors) : errors[k].blk = d})
           <= SumViolations(lines, Region(lines, d))

C10_Witness ==
  /\ FileDone
  /\ Len(lines) = 3
  /\ lines[1] = <<" ">> \o DeclBlock
  /\ lines[2] = <<" ", " ">> \o EnvEntry(A_KEY)
  /\ lines[3] = <<" ">> \o EnvEntry(A_KEY)
  /\ Len(errors) = 1

====
